---- MODULE Spec2Model ----
(***************************************************************************)
(* Leave-request lifecycle of simple-leave-management: the Employee and    *)
(* Leave collections, createEmployee, applyForLeave and updateLeaveStatus. *)
(*                                                                         *)
(* Dates are calendar days (the request bodies are documented as           *)
(* `format: date`), numbered 0..MaxDay; new Date("YYYY-MM-DD") keeps the   *)
(* day, so a date is its day number and getTime() differences divided by   *)
(* 1000*3600*24 are differences of day numbers.  The days run from the day *)
(* before yesterday to MaxDay.  Document ids are the position of the       *)
(* document in its collection (insertion order).                           *)
(***************************************************************************)
EXTENDS Integers, Sequences, FiniteSets, TLC

\* ---- bounds of the model
MaxDay == 3
Today == 1
MaxLeaves == 2
MaxAvail == 1

\* ---- program constants
DefaultLeaveAvailability == 40
DefaultPage == 1
DefaultLimit == 9
GeneralMax == 100
ReadMax == 200

PENDING == "Pending"
APPROVED == "Approved"
REJECTED == "Rejected"
LeaveStatus == {PENDING, APPROVED, REJECTED}

Days == (Today - 2)..MaxDay
LeaveIds == 1..MaxLeaves
Procs == {1, 2}

\* request-body values
Emails == {"a@x.io", "A@x.io", "b@x.io"}
JoinDates == {Today + 1}
Reasons == {"sick"}
StatusInputs == {"", "Cancelled", PENDING, APPROVED, REJECTED}
\* leaveAvailability as sent: absent, a JSON number, or a numeric JSON string
AvailInputs ==
    {[t |-> "undefined", v |-> 0]}
      \cup {[t |-> "number", v |-> n] : n \in {0, MaxAvail}}
      \cup {[t |-> "string", v |-> -1]}

\* page and limit as sent in the query string: absent, not a number, a number
QueryInputs ==
    {[t |-> "absent", v |-> 0], [t |-> "text", v |-> 0]}
      \cup {[t |-> "number", v |-> n] : n \in {-1, 0, 1, 2}}
ListStatusInputs == {"", "Cancelled", PENDING, APPROVED}

VARIABLES
    employees,   \* Employee collection: sequence of documents, _id = index
    created,     \* history: leaveAvailability each employee was created with
    leaves,      \* Leave collection: sequence of documents, _id = index
    last,        \* the response of the last finished request
    pc,          \* per handler invocation: the await it is suspended at
    loc,         \* per handler invocation: its local variables
    hits         \* rate limiters: requests of the client IP in the current window

vars == <<employees, created, leaves, last, pc, loc, hits>>

\* ---- responses: res.status(code) and the ApiResponse / ApiError sent; a
\* success also carries the document it created or updated
NoBody == [missing |-> {}]

\* the error-handling middleware answers a thrown ApiError with its statusCode
ErrorHandlerStatus(statusCode) == statusCode

Rejected(op, outcome, code) ==
    [op |-> op, outcome |-> outcome, code |-> ErrorHandlerStatus(code), id |-> 0,
     req |-> "", body |-> NoBody]

Succeeded(op, code, id, req, body) ==
    [op |-> op, outcome |-> "OK", code |-> code, id |-> id, req |-> req,
     body |-> body]

NoResponse == Rejected("none", "none", 0)

\* ---- schema setters
\* variant: the email stored and queried as sent
LowerKeepsCase(e) == e

Lower(e) == IF e = "A@x.io" THEN "a@x.io" ELSE e

\* the unique index on email caps the collection at one employee per address
MaxEmps == Cardinality({Lower(e) : e \in Emails})
EmpIds == 1..MaxEmps

\* ---- request bodies: complete ones, and ones with a field left out
\* ranges from today on, in either order, and ranges starting yesterday
CompleteApply ==
    [missing : {{}}, employeeId : EmpIds, startDate : Today..MaxDay,
     endDate : Today..MaxDay, reason : Reasons]
      \cup [missing : {{}}, employeeId : EmpIds, startDate : {Today - 1},
            endDate : {Today - 2, Today - 1, MaxDay}, reason : Reasons]

IncompleteApply ==
    [missing : {{"employeeId"}, {"startDate"}, {"endDate"}, {"reason"}},
     employeeId : {1}, startDate : {Today}, endDate : {Today - 1, Today},
     reason : Reasons]

ApplyRequests == CompleteApply \cup IncompleteApply

CompleteCreate ==
    [missing : {{}}, departmentOk : {TRUE}, email : Emails,
     joiningDate : JoinDates, leaveAvailability : AvailInputs]

\* a department outside the enum
BadDepartmentCreate ==
    [missing : {{}}, departmentOk : {FALSE}, email : Emails,
     joiningDate : JoinDates, leaveAvailability : {[t |-> "number", v |-> 0]}]

IncompleteCreate ==
    [missing : {{"fullName"}, {"email"}, {"department"}, {"joiningDate"}},
     departmentOk : {TRUE}, email : {"a@x.io"}, joiningDate : JoinDates,
     leaveAvailability : {[t |-> "undefined", v |-> 0]}]

CreateRequests == CompleteCreate \cup BadDepartmentCreate \cup IncompleteCreate

\* complete bodies with a joiningDate before, on and after the day of creation
AnyDateCreate ==
    [missing : {{}}, departmentOk : {TRUE}, email : Emails,
     joiningDate : {Today - 1, Today, Today + 1}, leaveAvailability : AvailInputs]

\* ---- store queries
EmployeeFindById(id) == id \in DOMAIN employees

EmployeeFindOneByEmail(email) ==
    \E i \in DOMAIN employees : employees[i].email = Lower(email)

LeaveFindById(id) == id \in DOMAIN leaves

\* variant: the four cases with exclusive comparisons ($lt / $gt)
OverlapOrExclusive(lv, start, end) ==
    \/ (lv.startDate < start /\ lv.endDate > start)
    \/ (lv.startDate < end /\ lv.endDate > end)
    \/ (lv.startDate > start /\ lv.endDate < end)
    \/ (lv.startDate < start /\ lv.endDate > end)

\* variant: without the case of a stored leave lying inside the new range
OverlapOrNoEncompassed(lv, start, end) ==
    \/ (lv.startDate <= start /\ lv.endDate >= start)
    \/ (lv.startDate <= end /\ lv.endDate >= end)
    \/ (lv.startDate <= start /\ lv.endDate >= end)

\* the $or of the overlap query, on one stored leave
OverlapOr(lv, start, end) ==
    \/ (lv.startDate <= start /\ lv.endDate >= start)
    \/ (lv.startDate <= end /\ lv.endDate >= end)
    \/ (lv.startDate >= start /\ lv.endDate <= end)
    \/ (lv.startDate <= start /\ lv.endDate >= end)

\* variant: the query matches leaves of any status
OverlapFilterAnyStatus(lv, employeeId, start, end) ==
    /\ lv.employeId = employeeId
    /\ OverlapOr(lv, start, end)

\* variant: the query is not scoped to the employee
OverlapFilterAnyEmployee(lv, employeeId, start, end) ==
    /\ lv.status \in {PENDING, APPROVED}
    /\ OverlapOr(lv, start, end)

\* the filter of the overlap query, on one stored leave
OverlapFilter(lv, employeeId, start, end) ==
    /\ lv.employeId = employeeId
    /\ lv.status \in {PENDING, APPROVED}
    /\ OverlapOr(lv, start, end)

LeaveFindOneOverlapping(employeeId, start, end) ==
    \E i \in DOMAIN leaves : OverlapFilter(leaves[i], employeeId, start, end)

\* variant: the difference of the days, without the + 1
LeaveDurationExclusive(start, end) == end - start

LeaveDuration(start, end) == (end - start) + 1

\* variant: the schema default of status is not Pending
NewLeaveApproved(employeeId, start, end, reason) ==
    [employeId |-> employeeId, startDate |-> start, endDate |-> end,
     reason |-> reason, status |-> APPROVED]

NewLeave(employeeId, start, end, reason) ==
    [employeId |-> employeeId, startDate |-> start, endDate |-> end,
     reason |-> reason, status |-> PENDING]

\* ---- applyForLeave: the rejection its checks produce, or "OK"
ApplyFields == {"employeeId", "startDate", "endDate", "reason"}

\* variant: no range test
ApplyInputCheckNoRange(missing, start, end) ==
    IF missing # {} THEN "MissingField"
    ELSE IF start < Today THEN "PastDate"
    ELSE "OK"

\* variant: the past-date test placed before the range test
ApplyInputCheckPastFirst(missing, start, end) ==
    IF missing # {} THEN "MissingField"
    ELSE IF start < Today THEN "PastDate"
    ELSE IF start > end THEN "InvalidRange"
    ELSE "OK"

\* variant: no past-date test
ApplyInputCheckNoPast(missing, start, end) ==
    IF missing # {} THEN "MissingField"
    ELSE IF start > end THEN "InvalidRange"
    ELSE "OK"

ApplyInputCheck(missing, start, end) ==
    IF missing # {} THEN "MissingField"
    ELSE IF start > end THEN "InvalidRange"
    ELSE IF start < Today THEN "PastDate"
    ELSE "OK"

\* variant: no joining-date test
ApplyJoiningCheckOff(employeeId, start) == "OK"

ApplyJoiningCheck(employeeId, start) ==
    IF start < employees[employeeId].joiningDate THEN "BeforeJoining" ELSE "OK"

ApplyBalanceCheck(availability, start, end) ==
    IF availability < LeaveDuration(start, end) THEN "InsufficientBalance" ELSE "OK"

ApplyOutcome(missing, employeeId, start, end) ==
    IF ApplyInputCheck(missing, start, end) # "OK"
      THEN ApplyInputCheck(missing, start, end)
    ELSE IF ~EmployeeFindById(employeeId) THEN "EmployeeNotFound"
    ELSE IF ApplyJoiningCheck(employeeId, start) # "OK" THEN "BeforeJoining"
    ELSE IF LeaveFindOneOverlapping(employeeId, start, end) THEN "OverlapConflict"
    ELSE ApplyBalanceCheck(employees[employeeId].leaveAvailability, start, end)

\* variant: an overlap answered as a plain validation error
ApplyCodeOverlapBadRequest(outcome) ==
    CASE outcome = "OK" -> 201
      [] outcome = "EmployeeNotFound" -> 404
      [] OTHER -> 400

ApplyCode(outcome) ==
    CASE outcome = "OK" -> 201
      [] outcome = "EmployeeNotFound" -> 404
      [] outcome = "OverlapConflict" -> 409
      [] OTHER -> 400

\* ---- updateLeaveStatus: the rejection its checks produce, or "OK"
\* variant: Pending accepted as a target
UpdateStatusCheckWithPending(status) ==
    IF status = "" \/ status \notin LeaveStatus THEN "InvalidStatus" ELSE "OK"

UpdateStatusCheck(status) ==
    IF status = "" \/ status \notin {APPROVED, REJECTED} THEN "InvalidStatus" ELSE "OK"

\* variant: no terminal-state guard
UpdatePendingCheckOff(lv) == "OK"

UpdatePendingCheck(lv) ==
    IF lv.status # PENDING THEN "AlreadyProcessed" ELSE "OK"

\* variant: no balance re-check at approval
UpdateBalanceCheckOff(availability, lv) == "OK"

\* variant: the re-check tolerates an overdraft of one day
UpdateBalanceCheckSlack(availability, lv) ==
    IF availability + 1 < LeaveDuration(lv.startDate, lv.endDate)
      THEN "InsufficientBalance" ELSE "OK"

UpdateBalanceCheck(availability, lv) ==
    IF availability < LeaveDuration(lv.startDate, lv.endDate)
      THEN "InsufficientBalance" ELSE "OK"

\* variant: one day deducted whatever the duration
DeductOneDay(availability, lv) == availability - 1

Deduct(availability, lv) ==
    availability - LeaveDuration(lv.startDate, lv.endDate)

\* variant: the leave looked up before the status is validated
UpdateOutcomeLookupFirst(id, status) ==
    IF ~LeaveFindById(id) THEN "LeaveNotFound"
    ELSE IF UpdateStatusCheck(status) # "OK" THEN "InvalidStatus"
    ELSE IF UpdatePendingCheck(leaves[id]) # "OK" THEN "AlreadyProcessed"
    ELSE IF status # APPROVED THEN "OK"
    ELSE IF ~EmployeeFindById(leaves[id].employeId) THEN "EmployeeNotFound"
    ELSE UpdateBalanceCheck(employees[leaves[id].employeId].leaveAvailability, leaves[id])

UpdateOutcome(id, status) ==
    IF UpdateStatusCheck(status) # "OK" THEN "InvalidStatus"
    ELSE IF ~LeaveFindById(id) THEN "LeaveNotFound"
    ELSE IF UpdatePendingCheck(leaves[id]) # "OK" THEN "AlreadyProcessed"
    ELSE IF status # APPROVED THEN "OK"
    ELSE IF ~EmployeeFindById(leaves[id].employeId) THEN "EmployeeNotFound"
    ELSE UpdateBalanceCheck(employees[leaves[id].employeId].leaveAvailability, leaves[id])

UpdateCode(outcome) ==
    CASE outcome = "OK" -> 200
      [] outcome \in {"LeaveNotFound", "EmployeeNotFound"} -> 404
      [] OTHER -> 400

\* ---- createEmployee
CreateFields == {"fullName", "email", "department", "joiningDate"}

AvailabilityInvalid(a) == a.t = "number" /\ a.v < 1

\* the schema default and the Number cast of the stored value
StoredAvailability(a) == IF a.t = "undefined" THEN DefaultLeaveAvailability ELSE a.v

CreateOutcome(missing, departmentOk, email, a) ==
    IF missing # {} THEN "MissingField"
    ELSE IF ~departmentOk THEN "InvalidDepartment"
    ELSE IF EmployeeFindOneByEmail(email) THEN "DuplicateEmail"
    ELSE IF AvailabilityInvalid(a) THEN "InvalidLeaveAllowance"
    ELSE "OK"

CreateCode(outcome) ==
    CASE outcome = "OK" -> 200
      [] outcome = "DuplicateEmail" -> 409
      [] OTHER -> 400

NewEmployee(email, joiningDate, a) ==
    [email |-> Lower(email), joiningDate |-> joiningDate,
     leaveAvailability |-> StoredAvailability(a)]

\* ---- initial state: empty collections, no request in flight
Idle == [op |-> "none", id |-> 0, status |-> "", body |-> NoBody, availability |-> 0]

NoHits == [general |-> 0, read |-> 0, reads |-> 0]

Init ==
    /\ employees = <<>>
    /\ created = <<>>
    /\ leaves = <<>>
    /\ last = NoResponse
    /\ pc = [p \in Procs |-> "idle"]
    /\ loc = [p \in Procs |-> Idle]
    /\ hits = NoHits

\* ---- whole handlers, each run to completion
\* the Employee collection after createEmployee: EmployeeModel.create runs
\* only when no check has thrown
EmployeesAfterCreate(body, outcome) ==
    IF outcome = "OK"
      THEN Append(employees,
                  NewEmployee(body.email, body.joiningDate, body.leaveAvailability))
      ELSE employees

\* what createEmployee answers
CreateResponse(body, outcome) ==
    IF outcome = "OK"
      THEN Succeeded("createEmployee", CreateCode(outcome), Len(employees) + 1, "", body)
      ELSE Rejected("createEmployee", outcome, CreateCode(outcome))

CreateEmployeeWith(body) ==
    LET outcome == CreateOutcome(body.missing, body.departmentOk, body.email,
                                 body.leaveAvailability) IN
    /\ outcome = "OK" => Len(employees) < MaxEmps
    /\ employees' = EmployeesAfterCreate(body, outcome)
    /\ created' = IF outcome = "OK"
                    THEN Append(created, StoredAvailability(body.leaveAvailability))
                    ELSE created
    /\ last' = CreateResponse(body, outcome)
    /\ UNCHANGED <<leaves, pc, loc, hits>>

createEmployee == \E body \in CreateRequests : CreateEmployeeWith(body)

\* createEmployee alone, over every joiningDate
createEmployeeAnyDate ==
    \E body \in AnyDateCreate \cup BadDepartmentCreate \cup IncompleteCreate :
        CreateEmployeeWith(body)

SpecCreate == Init /\ [][createEmployeeAnyDate]_vars

\* variant: Leave.create placed before the checks
LeavesAfterApplyAlways(body, outcome) ==
    Append(leaves, NewLeave(body.employeeId, body.startDate, body.endDate, body.reason))

\* the Leave collection after applyForLeave: Leave.create runs only when no
\* check has thrown
LeavesAfterApply(body, outcome) ==
    IF outcome = "OK"
      THEN Append(leaves, NewLeave(body.employeeId, body.startDate, body.endDate,
                                   body.reason))
      ELSE leaves

\* what applyForLeave answers: 201 with the new leave, or the error thrown
ApplyResponse(body, outcome) ==
    IF outcome = "OK"
      THEN Succeeded("applyForLeave", ApplyCode(outcome), Len(leaves) + 1, "", body)
      ELSE Rejected("applyForLeave", outcome, ApplyCode(outcome))

ApplyForLeaveWith(body) ==
    LET outcome == ApplyOutcome(body.missing, body.employeeId, body.startDate,
                                body.endDate) IN
    /\ outcome = "OK" => Len(leaves) < MaxLeaves
    /\ leaves' = LeavesAfterApply(body, outcome)
    /\ last' = ApplyResponse(body, outcome)
    /\ UNCHANGED <<employees, created, pc, loc, hits>>

applyForLeave == \E body \in ApplyRequests : ApplyForLeaveWith(body)

\* variant: the deduction is not guarded by status === Approved
EmployeesAfterUpdateAnyStatus(id, status) ==
    [employees EXCEPT ![leaves[id].employeId].leaveAvailability =
                         Deduct(@, leaves[id])]

\* the Employee collection after a successful transition of leave id
EmployeesAfterUpdate(id, status) ==
    IF status = APPROVED
      THEN [employees EXCEPT ![leaves[id].employeId].leaveAvailability =
                                Deduct(@, leaves[id])]
      ELSE employees

\* the Leave collection after a successful transition: leave.status = status
\* and leave.save()
LeavesAfterUpdate(id, status) == [leaves EXCEPT ![id].status = status]

UpdateLeaveStatusWith(id, status) ==
    LET outcome == UpdateOutcome(id, status) IN
    /\ IF outcome = "OK"
         THEN /\ employees' = EmployeesAfterUpdate(id, status)
              /\ leaves' = LeavesAfterUpdate(id, status)
              /\ last' = Succeeded("updateLeaveStatus", UpdateCode(outcome),
                                   id, status, NoBody)
         ELSE /\ UNCHANGED <<employees, leaves>>
              /\ last' = Rejected("updateLeaveStatus", outcome, UpdateCode(outcome))
    /\ UNCHANGED <<created, pc, loc, hits>>

updateLeaveStatus ==
    \E id \in LeaveIds, status \in StatusInputs : UpdateLeaveStatusWith(id, status)

Next == createEmployee \/ applyForLeave \/ updateLeaveStatus

Spec == Init /\ [][Next]_vars

\* ---- the handlers as Node.js runs them: the code between two awaits is one
\* step, and each store call takes effect in the step that resumes after it
InFlight(p) == pc[p] # "idle"

Respond(p, response) ==
    /\ last' = response
    /\ pc' = [pc EXCEPT ![p] = "idle"]
    /\ loc' = [loc EXCEPT ![p] = Idle]

Goto(p, label, locals) ==
    /\ pc' = [pc EXCEPT ![p] = label]
    /\ loc' = [loc EXCEPT ![p] = locals]
    /\ UNCHANGED last

\* Requests that fail the synchronous checks never reach the store; the
\* stepwise handlers are driven with the requests that pass them.
WellFormedApply ==
    {body \in ApplyRequests :
        ApplyInputCheck(body.missing, body.startDate, body.endDate) = "OK"}

WellFormedStatus == {status \in StatusInputs : UpdateStatusCheck(status) = "OK"}

PendingInserts == Cardinality({q \in Procs : loc[q].op = "applyForLeave"})

\* applyForLeave up to `await Leave.findOne`: input checks, Employee.findById
ApplyFindEmployee(p) ==
    /\ pc[p] = "idle"
    /\ \E body \in WellFormedApply :
          LET pre == ApplyInputCheck(body.missing, body.startDate, body.endDate) IN
          IF pre # "OK"
            THEN Respond(p, Rejected("applyForLeave", pre, ApplyCode(pre)))
          ELSE IF ~EmployeeFindById(body.employeeId)
            THEN Respond(p, Rejected("applyForLeave", "EmployeeNotFound",
                                     ApplyCode("EmployeeNotFound")))
          ELSE IF ApplyJoiningCheck(body.employeeId, body.startDate) # "OK"
            THEN Respond(p, Rejected("applyForLeave", "BeforeJoining",
                                     ApplyCode("BeforeJoining")))
          ELSE /\ Len(leaves) + PendingInserts < MaxLeaves
               /\ Goto(p, "apply_findOne",
                       [Idle EXCEPT !.op = "applyForLeave", !.body = body,
                          !.availability = employees[body.employeeId].leaveAvailability])
    /\ UNCHANGED <<employees, created, leaves, hits>>

\* Leave.findOne resolves; the balance check uses the employee read earlier
ApplyFindOne(p) ==
    /\ pc[p] = "apply_findOne"
    /\ LET body == loc[p].body
           bal == ApplyBalanceCheck(loc[p].availability, body.startDate, body.endDate) IN
       IF LeaveFindOneOverlapping(body.employeeId, body.startDate, body.endDate)
         THEN Respond(p, Rejected("applyForLeave", "OverlapConflict",
                                  ApplyCode("OverlapConflict")))
       ELSE IF bal # "OK"
         THEN Respond(p, Rejected("applyForLeave", bal, ApplyCode(bal)))
       ELSE Goto(p, "apply_create", loc[p])
    /\ UNCHANGED <<employees, created, leaves, hits>>

\* Leave.create resolves
ApplyCreate(p) ==
    /\ pc[p] = "apply_create"
    /\ LET body == loc[p].body IN
       /\ leaves' = Append(leaves, NewLeave(body.employeeId, body.startDate,
                                            body.endDate, body.reason))
       /\ Respond(p, Succeeded("applyForLeave", ApplyCode("OK"), Len(leaves) + 1,
                               "", body))
    /\ UNCHANGED <<employees, created, hits>>

\* updateLeaveStatus up to its next await: status check, Leave.findById
UpdateFindLeave(p) ==
    /\ pc[p] = "idle"
    /\ \E id \in LeaveIds, status \in WellFormedStatus :
          IF UpdateStatusCheck(status) # "OK"
            THEN Respond(p, Rejected("updateLeaveStatus", "InvalidStatus",
                                     UpdateCode("InvalidStatus")))
          ELSE IF ~LeaveFindById(id)
            THEN Respond(p, Rejected("updateLeaveStatus", "LeaveNotFound",
                                     UpdateCode("LeaveNotFound")))
          ELSE IF UpdatePendingCheck(leaves[id]) # "OK"
            THEN Respond(p, Rejected("updateLeaveStatus", "AlreadyProcessed",
                                     UpdateCode("AlreadyProcessed")))
          ELSE Goto(p, IF status = APPROVED THEN "update_findEmployee"
                                           ELSE "update_saveLeave",
                    [Idle EXCEPT !.op = "updateLeaveStatus", !.id = id,
                                 !.status = status])
    /\ UNCHANGED <<employees, created, leaves, hits>>

\* Employee.findById resolves: balance check, deduction on the document read
UpdateFindEmployee(p) ==
    /\ pc[p] = "update_findEmployee"
    /\ LET lv == leaves[loc[p].id] IN
       IF ~EmployeeFindById(lv.employeId)
         THEN Respond(p, Rejected("updateLeaveStatus", "EmployeeNotFound",
                                  UpdateCode("EmployeeNotFound")))
       ELSE LET bal == UpdateBalanceCheck(employees[lv.employeId].leaveAvailability, lv) IN
            IF bal # "OK"
              THEN Respond(p, Rejected("updateLeaveStatus", bal, UpdateCode(bal)))
            ELSE Goto(p, "update_saveEmployee",
                      [loc[p] EXCEPT !.availability =
                          Deduct(employees[lv.employeId].leaveAvailability, lv)])
    /\ UNCHANGED <<employees, created, leaves, hits>>

\* employee.save() resolves: the balance computed from the earlier read is stored
UpdateSaveEmployee(p) ==
    /\ pc[p] = "update_saveEmployee"
    /\ employees' = [employees EXCEPT
                       ![leaves[loc[p].id].employeId].leaveAvailability =
                           loc[p].availability]
    /\ Goto(p, "update_saveLeave", loc[p])
    /\ UNCHANGED <<created, leaves, hits>>

\* leave.save() resolves
UpdateSaveLeave(p) ==
    /\ pc[p] = "update_saveLeave"
    /\ leaves' = [leaves EXCEPT ![loc[p].id].status = loc[p].status]
    /\ Respond(p, Succeeded("updateLeaveStatus", UpdateCode("OK"), loc[p].id,
                            loc[p].status, NoBody))
    /\ UNCHANGED <<employees, created, hits>>

\* a store call rejects (connection lost, write error): asyncHandler passes the
\* error on and the handler is abandoned where it stood
StoreFails(p) ==
    /\ InFlight(p)
    /\ Respond(p, Rejected(loc[p].op, "InternalError", 500))
    /\ UNCHANGED <<employees, created, leaves, hits>>

\* the store when the concurrent requests arrive: one employee, no leave yet
ConcInit ==
    /\ \E a \in {x \in AvailInputs : ~AvailabilityInvalid(x)} :
          /\ employees = <<NewEmployee("a@x.io", Today + 1, a)>>
          /\ created = <<StoredAvailability(a)>>
    /\ leaves = <<>>
    /\ last = NoResponse
    /\ pc = [p \in Procs |-> "idle"]
    /\ loc = [p \in Procs |-> Idle]
    /\ hits = NoHits

StepsOf(p) ==
    \/ ApplyFindEmployee(p)
    \/ ApplyFindOne(p)
    \/ ApplyCreate(p)
    \/ UpdateFindLeave(p)
    \/ UpdateFindEmployee(p)
    \/ UpdateSaveEmployee(p)
    \/ UpdateSaveLeave(p)

\* requests served concurrently
ConcNext == \E p \in Procs : StepsOf(p)

SpecConc == ConcInit /\ [][ConcNext]_vars

\* one request at a time, over a store whose calls may fail
FailNext == StepsOf(1) \/ StoreFails(1)

SpecFail == ConcInit /\ [][FailNext]_vars

\* ---- the overlap query on its own: a store holding one active leave of an
\* employee who joined before it, queried with every candidate range
OverlapInit ==
    /\ employees = <<[email |-> "a@x.io", joiningDate |-> Today - 2,
                      leaveAvailability |-> DefaultLeaveAvailability]>>
    /\ created = <<DefaultLeaveAvailability>>
    /\ \E s \in Days, e \in Days, st \in {PENDING, APPROVED} :
          /\ s <= e
          /\ leaves = <<[NewLeave(1, s, e, "sick") EXCEPT !.status = st]>>
    /\ last = NoResponse
    /\ pc = [p \in Procs |-> "idle"]
    /\ loc = [p \in Procs |-> Idle]
    /\ hits = NoHits

\* Leave.findOne with the overlap filter resolves to a document or to null
FindOneOverlapping ==
    /\ \E start \in Days, end \in Days :
          last' = [op |-> "Leave.findOne",
                   outcome |-> IF LeaveFindOneOverlapping(1, start, end)
                                 THEN "found" ELSE "null",
                   code |-> 0, id |-> 0, req |-> "",
                   body |-> [missing |-> {}, employeeId |-> 1, startDate |-> start,
                             endDate |-> end, reason |-> "sick"]]
    /\ UNCHANGED <<employees, created, leaves, pc, loc, hits>>

SpecOverlap == OverlapInit /\ [][FindOneOverlapping]_vars

\* ---- getAllLeaves
\* parseInt of a query value: NaN for an absent or non-numeric one
ParseInt(q) ==
    IF q.t = "number" THEN [nan |-> FALSE, v |-> q.v] ELSE [nan |-> TRUE, v |-> 0]

\* variant: only positive numbers are kept
OrDefaultPositive(n, default) == IF n.nan \/ n.v < 1 THEN default ELSE n.v

\* n || default: NaN and 0 are falsy, every other number is kept
OrDefault(n, default) == IF n.nan \/ n.v = 0 THEN default ELSE n.v

Skip(page, limit) == (page - 1) * limit

\* the status filter is used only when it names one of the three statuses
QueryFilter(lv, status) == status \in LeaveStatus => lv.status = status

Matching(status) == {i \in DOMAIN leaves : QueryFilter(leaves[i], status)}

\* sort({createdAt: -1}): LeaveSchema sets no timestamps, so no leave has a
\* createdAt and every order of the matching documents is a sorted one
SortedByCreatedAt(status) ==
    {order \in [1..Cardinality(Matching(status)) -> Matching(status)] :
        \A i, j \in DOMAIN order : i # j => order[i] # order[j]}

Abs(n) == IF n < 0 THEN -n ELSE n

\* limit(limit).skip(skip) on the sorted documents; a negative limit is served
\* as its absolute value
PageOf(order, skip, limit) ==
    [i \in 1..(IF Len(order) - skip < 0 THEN 0
               ELSE IF Len(order) - skip < Abs(limit) THEN Len(order) - skip
               ELSE Abs(limit)) |-> order[skip + i]]

\* Math.ceil(totalDocuments / limit), limit # 0
TotalPages(total, limit) ==
    IF limit > 0 THEN (total + limit - 1) \div limit ELSE -(total \div (-limit))

\* what getAllLeaves answers; the store refuses a negative skip
ListResponse(pageQ, limitQ, status, order) ==
    LET page == OrDefault(ParseInt(pageQ), DefaultPage)
        limit == OrDefault(ParseInt(limitQ), DefaultLimit)
        skip == Skip(page, limit)
        total == Cardinality(Matching(status)) IN
    [op |-> "getAllLeaves",
     outcome |-> IF skip < 0 THEN "InternalError" ELSE "OK",
     code |-> IF skip < 0 THEN 500 ELSE 200,
     id |-> 0, req |-> status,
     body |-> [missing |-> {}, page |-> page, limit |-> limit, skip |-> skip,
               items |-> IF skip < 0 THEN <<>> ELSE PageOf(order, skip, limit),
               totalDocuments |-> total,
               totalPages |-> TotalPages(total, limit)]]

GetAllLeavesWith(pageQ, limitQ, status, order) ==
    /\ last' = ListResponse(pageQ, limitQ, status, order)
    /\ UNCHANGED <<employees, created, leaves, pc, loc>>

getAllLeaves ==
    /\ \E pageQ \in QueryInputs, limitQ \in QueryInputs, status \in ListStatusInputs :
          \E order \in SortedByCreatedAt(status) :
             GetAllLeavesWith(pageQ, limitQ, status, order)
    /\ UNCHANGED hits

\* a store holding up to MaxLeaves one-day leaves of one employee, inserted
\* one after the other, in any statuses
ListInit ==
    /\ \E n \in 0..MaxLeaves : \E st \in [1..n -> LeaveStatus] :
          leaves = [i \in 1..n |->
                      [NewLeave(1, MaxDay - i + 1, MaxDay - i + 1, "sick")
                         EXCEPT !.status = st[i]]]
    /\ employees = <<[email |-> "a@x.io", joiningDate |-> Today - 2,
                      leaveAvailability |->
                         DefaultLeaveAvailability
                           - Cardinality({i \in DOMAIN leaves :
                                            leaves[i].status = APPROVED})]>>
    /\ created = <<DefaultLeaveAvailability>>
    /\ last = NoResponse
    /\ pc = [p \in Procs |-> "idle"]
    /\ loc = [p \in Procs |-> Idle]
    /\ hits = NoHits

SpecList == ListInit /\ [][getAllLeaves]_vars

\* ---- rate limiters in front of GET /api/v1/leaves
\* the limiter's answer once the window's count exceeds its max
TooManyRequests(op) ==
    [op |-> op, outcome |-> "TooManyRequests", code |-> 429, id |-> 0, req |-> "",
     body |-> NoBody]

\* one GET /api/v1/leaves of the client: generalLimiter (all routes), then
\* readLimiter (the route), then the handler; each limiter counts the request
\* and answers 429 once its count exceeds its max
ReadRequest ==
    /\ hits.general <= GeneralMax
    /\ IF hits.general + 1 > GeneralMax
         THEN /\ hits' = [hits EXCEPT !.general = @ + 1, !.reads = @ + 1]
              /\ last' = TooManyRequests("getAllLeaves")
              /\ UNCHANGED <<employees, created, leaves, pc, loc>>
       ELSE IF hits.read + 1 > ReadMax
         THEN /\ hits' = [hits EXCEPT !.general = @ + 1, !.read = @ + 1,
                                      !.reads = @ + 1]
              /\ last' = TooManyRequests("getAllLeaves")
              /\ UNCHANGED <<employees, created, leaves, pc, loc>>
       ELSE /\ hits' = [hits EXCEPT !.general = @ + 1, !.read = @ + 1,
                                    !.reads = @ + 1]
            /\ \E order \in SortedByCreatedAt("") :
                  GetAllLeavesWith([t |-> "absent", v |-> 0],
                                   [t |-> "absent", v |-> 0], "", order)

\* the 15-minute window of the client's first request elapses
WindowElapses ==
    /\ hits # NoHits
    /\ hits' = NoHits
    /\ UNCHANGED <<employees, created, leaves, last, pc, loc>>

RateNext == ReadRequest \/ WindowElapses

SpecRate == ListInit /\ [][RateNext]_vars

(***************************************************************************)
(* Properties                                                              *)
(***************************************************************************)
Active(lv) == lv.status \in {PENDING, APPROVED}

Terminal(lv) == lv.status \in {APPROVED, REJECTED}

\* the closed intervals [startDate, endDate] of two leaves share a day
Intersect(a, b) == a.startDate <= b.endDate /\ b.startDate <= a.endDate

RECURSIVE ApprovedDaysUpTo(_, _)
ApprovedDaysUpTo(e, n) ==
    IF n = 0 THEN 0
    ELSE ApprovedDaysUpTo(e, n - 1)
           + (IF leaves[n].employeId = e /\ leaves[n].status = APPROVED
                THEN (leaves[n].endDate - leaves[n].startDate) + 1 ELSE 0)

\* days of employee e's Approved leaves
ApprovedDays(e) == ApprovedDaysUpTo(e, Len(leaves))

AllIdle == \A p \in Procs : pc[p] = "idle"

\* C1: with requests served one at a time, the Pending or Approved leaves of
\* one employee are pairwise disjoint as closed intervals of days.
C1_ActiveLeavesDisjoint ==
    \A i \in DOMAIN leaves : \A j \in DOMAIN leaves :
        (i < j /\ leaves[i].employeId = leaves[j].employeId
               /\ Active(leaves[i]) /\ Active(leaves[j]))
          => ~Intersect(leaves[i], leaves[j])

\* two active leaves of one employee are stored and a third, overlapping
\* application has just been refused
C1_Witness ==
    /\ last.op = "applyForLeave" /\ last.outcome = "OverlapConflict"
    /\ \E i \in DOMAIN leaves : \E j \in DOMAIN leaves :
          /\ i < j /\ leaves[i].employeId = leaves[j].employeId
          /\ Active(leaves[i]) /\ Active(leaves[j])

\* C2: two concurrent applications of one employee for intersecting ranges
\* never both succeed: of two stored leaves of one employee that intersect,
\* the earlier one had been Rejected before the later one was inserted.
C2_IntersectingSubmitsExclusive ==
    \A i \in DOMAIN leaves : \A j \in DOMAIN leaves :
        (i < j /\ leaves[i].employeId = leaves[j].employeId
               /\ Intersect(leaves[i], leaves[j]))
          => leaves[i].status = REJECTED

\* C3: with requests served one at a time and none failing, the days of an
\* employee's Approved leaves never exceed the leaveAvailability the employee
\* was created with.
C3_ApprovedWithinCreated ==
    \A e \in DOMAIN employees : ApprovedDays(e) <= created[e]

\* C4: concurrent approvals of one employee's requests are serializable: once
\* they have all returned, the Approved days do not exceed the balance the
\* employee held (here: a non-negative balance at creation).
C4_ApprovalsNeverOverdraw ==
    AllIdle =>
      \A e \in DOMAIN employees :
          created[e] >= 0 => ApprovedDays(e) <= created[e]

\* C5: under any interleaving of the handlers' steps, an employee created with
\* a non-negative leaveAvailability never has a negative one.
C5_BalanceNeverNegative ==
    \A e \in DOMAIN employees :
        created[e] >= 0 => employees[e].leaveAvailability >= 0

\* two approvals raced past the balance check (more days Approved than the
\* employee ever held) and the balance stands at 0
C5_Witness ==
    \E e \in DOMAIN employees :
        /\ created[e] > 0
        /\ ApprovedDays(e) > created[e]
        /\ employees[e].leaveAvailability = 0

\* C6 as stated: a transition requested on an Approved or Rejected leave fails
\* with AlreadyProcessed whatever the target status, and changes nothing.
C6_TerminalAlwaysAlreadyProcessed ==
    [][last'.op = "updateLeaveStatus" =>
         \A id \in DOMAIN leaves : \A status \in StatusInputs :
            (Terminal(leaves[id]) /\ UpdateLeaveStatusWith(id, status))
              => (last'.outcome = "AlreadyProcessed"
                    /\ UNCHANGED <<employees, leaves>>)]_vars

\* C6 as amended: a transition requested on an Approved or Rejected leave
\* fails and changes neither the leave nor any balance; it fails with
\* AlreadyProcessed when the target is Approved or Rejected, and with
\* InvalidStatus for any other target.
C6_TerminalNeverTransitions ==
    [][last'.op = "updateLeaveStatus" =>
         \A id \in DOMAIN leaves : \A status \in StatusInputs :
            (Terminal(leaves[id]) /\ UpdateLeaveStatusWith(id, status))
              => (last'.outcome = (IF status \in {APPROVED, REJECTED}
                                     THEN "AlreadyProcessed" ELSE "InvalidStatus")
                    /\ UNCHANGED <<employees, leaves>>)]_vars

\* a transition of a terminal leave has just been refused as AlreadyProcessed
C6_Witness ==
    /\ last.op = "updateLeaveStatus" /\ last.outcome = "AlreadyProcessed"
    /\ \E id \in DOMAIN leaves : leaves[id].status = APPROVED
    /\ \E id \in DOMAIN leaves : leaves[id].status = REJECTED

\* C7: under concurrent transitions a leave is mutated exactly once: its
\* status is only ever written while it is Pending, the balance is only
\* deducted for a leave that is still Pending, and a terminal status stays.
C7_MutatedExactlyOnce ==
    [][/\ \A id \in DOMAIN leaves :
            Terminal(leaves[id]) => leaves'[id].status = leaves[id].status
       /\ \A p \in Procs :
            (UpdateSaveLeave(p) \/ UpdateSaveEmployee(p))
              => leaves[loc[p].id].status = PENDING]_vars

\* C8: an approval's two writes are one atomic unit: whenever no handler is
\* running, also after a store call has failed, every balance is the created
\* one minus the days of the employee's Approved leaves (no deduction for a
\* leave still Pending, no Approved leave without its deduction).
C8_ApprovalWritesAtomic ==
    AllIdle =>
      \A e \in DOMAIN employees :
          employees[e].leaveAvailability = created[e] - ApprovedDays(e)

\* C9: a successful transition to Rejected changes the status of the targeted
\* leave and nothing else: no balance, no other leave, no other field.
C9_RejectChangesOnlyStatus ==
    [][(last'.op = "updateLeaveStatus" /\ last'.outcome = "OK") =>
         \A id \in DOMAIN leaves :
            UpdateLeaveStatusWith(id, REJECTED)
              => /\ employees' = employees
                 /\ leaves' = [leaves EXCEPT ![id].status = REJECTED]]_vars

\* a leave of an employee who still holds the created balance has just been
\* Rejected, next to another leave
C9_Witness ==
    /\ last.op = "updateLeaveStatus" /\ last.outcome = "OK" /\ last.req = REJECTED
    /\ leaves[last.id].status = REJECTED
    /\ Len(leaves) > 1
    /\ employees[leaves[last.id].employeId].leaveAvailability
         = created[leaves[last.id].employeId]

\* C10: a successful applyForLeave appends exactly one leave, Pending, with
\* the submitted employee, dates and reason, and changes no employee and no
\* leave already stored.
C10_SubmitInsertsOnePending ==
    [][(last'.op = "applyForLeave" /\ last'.outcome = "OK") =>
         \A body \in ApplyRequests :
            ApplyForLeaveWith(body)
              => /\ employees' = employees
                 /\ Len(leaves') = Len(leaves) + 1
                 /\ SubSeq(leaves', 1, Len(leaves)) = leaves
                 /\ leaves'[Len(leaves')] =
                       [employeId |-> body.employeeId, startDate |-> body.startDate,
                        endDate |-> body.endDate, reason |-> body.reason,
                        status |-> PENDING]]_vars

\* an application has just been accepted next to a stored leave, and the
\* applicant's balance is the created one
C10_Witness ==
    /\ last.op = "applyForLeave" /\ last.outcome = "OK" /\ last.code = 201
    /\ last.id = Len(leaves) /\ Len(leaves) > 1
    /\ leaves[last.id].status = PENDING
    /\ leaves[last.id].employeId = last.body.employeeId
    /\ employees[last.body.employeeId].leaveAvailability
         = created[last.body.employeeId]

\* ---- the checks of applyForLeave, each stated on its own
CheckOrder ==
    <<"MissingField", "InvalidRange", "PastDate", "EmployeeNotFound",
      "BeforeJoining", "OverlapConflict", "InsufficientBalance">>

Violates(check, body) ==
    CASE check = "MissingField" -> body.missing # {}
      [] check = "InvalidRange" -> body.startDate > body.endDate
      [] check = "PastDate" -> body.startDate < Today
      [] check = "EmployeeNotFound" -> body.employeeId \notin DOMAIN employees
      [] check = "BeforeJoining" ->
            /\ body.employeeId \in DOMAIN employees
            /\ body.startDate < employees[body.employeeId].joiningDate
      [] check = "OverlapConflict" ->
            \E i \in DOMAIN leaves :
               /\ leaves[i].employeId = body.employeeId
               /\ Active(leaves[i])
               /\ Intersect(leaves[i], body)
      [] check = "InsufficientBalance" ->
            /\ body.employeeId \in DOMAIN employees
            /\ employees[body.employeeId].leaveAvailability
                  < (body.endDate - body.startDate) + 1

\* the first check, from position i of the order on, that body violates
RECURSIVE EarliestViolatedFrom(_, _)
EarliestViolatedFrom(body, i) ==
    IF i > Len(CheckOrder) THEN "OK"
    ELSE IF Violates(CheckOrder[i], body) THEN CheckOrder[i]
    ELSE EarliestViolatedFrom(body, i + 1)

EarliestViolated(body) == EarliestViolatedFrom(body, 1)

\* the outcome applyForLeave reaches for a request body in the current state
OutcomeOf(body) ==
    ApplyOutcome(body.missing, body.employeeId, body.startDate, body.endDate)

\* C11: in every reachable state and for every request, applyForLeave reports
\* the earliest violated check in the order MissingField, InvalidRange,
\* PastDate, EmployeeNotFound, BeforeJoining, OverlapConflict,
\* InsufficientBalance, whatever later checks the input violates as well; it
\* succeeds only when none is violated.
C11_EarliestViolatedCheckReported ==
    \A body \in ApplyRequests :
        ApplyResponse(body, OutcomeOf(body)).outcome = EarliestViolated(body)

\* an application for a past day has been refused as PastDate while no
\* employee exists at all: its input violated EmployeeNotFound as well
C11_Witness ==
    /\ last.op = "applyForLeave" /\ last.outcome = "PastDate"
    /\ employees = <<>>

\* C12 as stated: every applyForLeave of an existing employee whose startDate
\* is before the employee's joiningDate is rejected with BeforeJoining.
C12_BeforeJoiningAlways ==
    \A body \in CompleteApply :
        (/\ body.employeeId \in DOMAIN employees
         /\ body.startDate < employees[body.employeeId].joiningDate)
          => ApplyResponse(body, OutcomeOf(body)).outcome = "BeforeJoining"

\* C12 as amended: an applyForLeave with all fields, startDate <= endDate and
\* startDate not in the past, whose startDate is before the joiningDate of
\* the (existing) employee, is rejected with BeforeJoining (400), whether or
\* not its range overlaps a stored leave, and stores nothing.
C12_BeforeJoiningAfterInputChecks ==
    \A body \in {b \in CompleteApply : b.startDate >= Today /\ b.startDate <= b.endDate} :
        (/\ body.employeeId \in DOMAIN employees
         /\ body.startDate < employees[body.employeeId].joiningDate)
          => /\ ApplyResponse(body, OutcomeOf(body)).outcome = "BeforeJoining"
             /\ ApplyResponse(body, OutcomeOf(body)).code = 400
             /\ LeavesAfterApply(body, OutcomeOf(body)) = leaves

\* an application has been refused as BeforeJoining while the store holds an
\* active leave
C12_Witness ==
    /\ last.op = "applyForLeave" /\ last.outcome = "BeforeJoining"
    /\ \E i \in DOMAIN leaves : Active(leaves[i])

\* C13 as stated: an applyForLeave with all fields and startDate = yesterday
\* is rejected with PastDate for every endDate.
C13_YesterdayAlwaysPastDate ==
    \A body \in CompleteApply :
        body.startDate = Today - 1
          => ApplyResponse(body, OutcomeOf(body)).outcome = "PastDate"

\* C13 as amended: an applyForLeave with all fields and startDate = yesterday
\* is rejected and stores nothing: with PastDate for every endDate on or
\* after startDate, and with InvalidRange for an endDate before startDate
\* (the range test comes first).
C13_YesterdayPastDateOrInvalidRange ==
    \A body \in [missing : {{}}, employeeId : EmpIds, startDate : {Today - 1},
                  endDate : Days, reason : Reasons] :
        body.startDate = Today - 1
          => /\ ApplyResponse(body, OutcomeOf(body)).outcome =
                   (IF body.endDate >= body.startDate THEN "PastDate"
                                                      ELSE "InvalidRange")
             /\ ApplyResponse(body, OutcomeOf(body)).code = 400
             /\ LeavesAfterApply(body, OutcomeOf(body)) = leaves

\* an application has been refused as PastDate by a store that holds an
\* employee and a leave
C13_Witness ==
    /\ last.op = "applyForLeave" /\ last.outcome = "PastDate"
    /\ Len(employees) > 0 /\ Len(leaves) > 0

\* C14: for a candidate range start <= end and a stored leave s <= e, the $or
\* of the overlap query matches the stored leave exactly when start <= e and
\* s <= end, that is when the closed intervals share a day.
C14_OverlapQueryIsIntersection ==
    (last.op = "Leave.findOne" /\ last.body.startDate <= last.body.endDate)
      => ((last.outcome = "found")
            <=> (/\ last.body.startDate <= leaves[1].endDate
                 /\ leaves[1].startDate <= last.body.endDate))

\* the query found a stored leave lying strictly inside the candidate range
C14_Witness ==
    /\ last.op = "Leave.findOne" /\ last.outcome = "found"
    /\ last.body.startDate < leaves[1].startDate
    /\ leaves[1].endDate < last.body.endDate

\* C15: the duration of a leave is (endDate - startDate in days) + 1 and is at
\* least 1 for every stored (accepted) leave; the submission check accepts a
\* request only when that many days are available, and with requests served
\* one at a time every balance is the created one minus that many days for
\* each Approved leave.
C15_DurationIsDaysPlusOne ==
    /\ \A i \in DOMAIN leaves :
          /\ LeaveDuration(leaves[i].startDate, leaves[i].endDate)
                = (leaves[i].endDate - leaves[i].startDate) + 1
          /\ LeaveDuration(leaves[i].startDate, leaves[i].endDate) >= 1
    /\ \A body \in CompleteApply :
          OutcomeOf(body) = "OK"
            => /\ (body.endDate - body.startDate) + 1 >= 1
               /\ (body.endDate - body.startDate) + 1
                     <= employees[body.employeeId].leaveAvailability
    /\ \A e \in DOMAIN employees :
          employees[e].leaveAvailability = created[e] - ApprovedDays(e)

\* a leave of two days has just been approved and two days were deducted
C15_Witness ==
    /\ last.op = "updateLeaveStatus" /\ last.outcome = "OK" /\ last.req = APPROVED
    /\ leaves[last.id].endDate = leaves[last.id].startDate + 1
    /\ employees[leaves[last.id].employeId].leaveAvailability
         = created[leaves[last.id].employeId] - 2

\* C16: updateLeaveStatus with a target status that is missing or is not
\* Approved or Rejected (Pending included) fails with InvalidStatus (400) and
\* changes no leave and no employee, whatever leave id it names.
C16_InvalidStatusChangesNothing ==
    [][last'.op = "updateLeaveStatus" =>
         \A id \in LeaveIds : \A status \in StatusInputs \ {APPROVED, REJECTED} :
            UpdateLeaveStatusWith(id, status)
              => (last'.outcome = "InvalidStatus" /\ last'.code = 400
                    /\ UNCHANGED <<employees, leaves>>)]_vars

\* a transition has just been refused as InvalidStatus while a Pending leave
\* is stored
C16_Witness ==
    /\ last.op = "updateLeaveStatus" /\ last.outcome = "InvalidStatus"
    /\ \E id \in DOMAIN leaves : leaves[id].status = PENDING

\* C17: with requests served one at a time, a successful transition to
\* Approved of a Pending leave of duration d, for an employee with balance
\* b >= d, leaves that employee with exactly b - d and the leave Approved, and
\* changes no other employee, no other leave and no other field.
C17_ApproveDeductsExactlyDuration ==
    [][(last'.op = "updateLeaveStatus" /\ last'.outcome = "OK") =>
         \A id \in DOMAIN leaves :
            UpdateLeaveStatusWith(id, APPROVED)
              => LET e == leaves[id].employeId
                     d == (leaves[id].endDate - leaves[id].startDate) + 1 IN
                 /\ leaves[id].status = PENDING
                 /\ employees[e].leaveAvailability >= d
                 /\ employees' = [employees EXCEPT
                                    ![e].leaveAvailability = employees[e].leaveAvailability - d]
                 /\ leaves' = [leaves EXCEPT ![id].status = APPROVED]]_vars

\* a leave of two days has just been approved next to another leave and
\* another employee
C17_Witness ==
    /\ last.op = "updateLeaveStatus" /\ last.outcome = "OK" /\ last.req = APPROVED
    /\ leaves[last.id].status = APPROVED
    /\ leaves[last.id].endDate > leaves[last.id].startDate
    /\ Len(leaves) > 1 /\ Len(employees) > 1

\* C18: with requests served one at a time, a transition to Approved of a
\* Pending leave whose duration exceeds the employee's current balance fails
\* with InsufficientBalance (400); the leave stays Pending and no balance
\* changes.
C18_ApproveBeyondBalanceRefused ==
    [][last'.op = "updateLeaveStatus" =>
         \A id \in DOMAIN leaves :
            (/\ leaves[id].status = PENDING
             /\ (leaves[id].endDate - leaves[id].startDate) + 1
                   > employees[leaves[id].employeId].leaveAvailability
             /\ UpdateLeaveStatusWith(id, APPROVED))
              => (last'.outcome = "InsufficientBalance" /\ last'.code = 400
                    /\ leaves'[id].status = PENDING
                    /\ UNCHANGED <<employees, leaves>>)]_vars

\* an approval has just been refused as InsufficientBalance: a Pending leave
\* asks for more days than its employee has left after another approval
C18_Witness ==
    /\ last.op = "updateLeaveStatus" /\ last.outcome = "InsufficientBalance"
    /\ \E id \in DOMAIN leaves :
          /\ leaves[id].status = PENDING
          /\ (leaves[id].endDate - leaves[id].startDate) + 1
                > employees[leaves[id].employeId].leaveAvailability
    /\ \E id \in DOMAIN leaves : leaves[id].status = APPROVED

\* C19: an applyForLeave that is rejected, for any of its seven reasons,
\* creates no leave and changes no stored leave and no employee.
C19_RejectedApplyChangesNothing ==
    [][(last'.op = "applyForLeave" /\ last'.outcome # "OK") =>
         (/\ \E i \in DOMAIN CheckOrder : last'.outcome = CheckOrder[i]
          /\ leaves' = leaves
          /\ employees' = employees)]_vars

\* an application has just been refused as InsufficientBalance at submission
\* by a store that holds a leave
C19_Witness ==
    /\ last.op = "applyForLeave" /\ last.outcome = "InsufficientBalance"
    /\ Len(leaves) > 0

\* C20: along every execution, concurrent ones included, no step raises an
\* employee's leaveAvailability.
C20_BalanceNeverRises ==
    [][\A e \in DOMAIN employees :
          employees'[e].leaveAvailability <= employees[e].leaveAvailability]_vars

\* C21: after creation no operation changes an employee's email or
\* joiningDate, or a leave's employee, dates or reason; and whenever no
\* request is in flight, also after a store call has failed, an employee's
\* leaveAvailability differs from the created one only if an approval of one
\* of the employee's leaves succeeded (the leave is Approved).
C21_OnlyBalanceAndStatusChange ==
    [][/\ \A e \in DOMAIN employees :
            /\ employees'[e].email = employees[e].email
            /\ employees'[e].joiningDate = employees[e].joiningDate
       /\ \A i \in DOMAIN leaves :
            leaves'[i] = [leaves[i] EXCEPT !.status = leaves'[i].status]
       /\ (\A p \in Procs : pc'[p] = "idle")
            => \A e \in DOMAIN employees' :
                  employees'[e].leaveAvailability # created'[e]
                    => \E i \in DOMAIN leaves' :
                          /\ leaves'[i].employeId = e
                          /\ leaves'[i].status = APPROVED]_vars

\* C22: every successful createEmployee and applyForLeave answers 201, every
\* successful updateLeaveStatus answers 200.
C22_CreatedAnswers201 ==
    last.outcome = "OK"
      => last.code = (IF last.op \in {"createEmployee", "applyForLeave"}
                        THEN 201 ELSE 200)

\* the status the interface promises for each rejection
PromisedStatus(outcome) ==
    CASE outcome \in {"MissingField", "InvalidRange", "PastDate", "BeforeJoining",
                      "InvalidStatus", "AlreadyProcessed", "InsufficientBalance",
                      "InvalidDepartment", "InvalidLeaveAllowance"} -> 400
      [] outcome \in {"EmployeeNotFound", "LeaveNotFound"} -> 404
      [] outcome \in {"OverlapConflict", "DuplicateEmail"} -> 409

SameUpToCase(a, b) == a = b \/ {a, b} = {"a@x.io", "A@x.io"}

EmailHeld(email) ==
    \E i \in DOMAIN employees : SameUpToCase(employees[i].email, email)

CreateOutcomeOf(body) ==
    CreateOutcome(body.missing, body.departmentOk, body.email, body.leaveAvailability)

\* C24 as stated: every createEmployee with all fields whose email an existing
\* employee holds, up to letter case, is rejected as DuplicateEmail.
C24_HeldEmailAlwaysDuplicate ==
    \A body \in AnyDateCreate \cup BadDepartmentCreate :
        EmailHeld(body.email)
          => CreateResponse(body, CreateOutcomeOf(body)).outcome = "DuplicateEmail"

\* C24 as amended: a createEmployee with all fields and a valid department
\* whose email an existing employee holds, up to letter case, is rejected as
\* DuplicateEmail with 409 and inserts nothing, whatever its leaveAvailability;
\* and no two stored employees have emails equal up to letter case.
C24_DuplicateEmailRejected ==
    /\ \A body \in AnyDateCreate :
          EmailHeld(body.email)
            => /\ CreateResponse(body, CreateOutcomeOf(body)).outcome = "DuplicateEmail"
               /\ CreateResponse(body, CreateOutcomeOf(body)).code = 409
               /\ EmployeesAfterCreate(body, CreateOutcomeOf(body)) = employees
    /\ \A i \in DOMAIN employees : \A j \in DOMAIN employees :
          i < j => ~SameUpToCase(employees[i].email, employees[j].email)

\* a creation has just been refused as DuplicateEmail while two employees
\* are stored
C24_Witness ==
    /\ last.op = "createEmployee" /\ last.outcome = "DuplicateEmail"
    /\ last.code = 409 /\ Len(employees) = 2

\* C25: createEmployee refuses every supplied leaveAvailability below 1, so
\* every employee is created with the default 40 or with a supplied value of
\* at least 1.
C25_AllowanceDefaultOrPositive ==
    /\ (last.op = "createEmployee" /\ last.outcome = "OK")
          => (last.body.leaveAvailability.t = "undefined"
                \/ last.body.leaveAvailability.v >= 1)
    /\ \A e \in DOMAIN employees :
          created[e] = DefaultLeaveAvailability \/ created[e] >= 1

\* C26: no employee is stored with a joiningDate before the day of creation.
C26_JoiningDateNotPast ==
    \A e \in DOMAIN employees : employees[e].joiningDate >= Today

\* ---- the checks of updateLeaveStatus, each stated on its own
UpdateCheckOrder ==
    <<"InvalidStatus", "LeaveNotFound", "AlreadyProcessed", "EmployeeNotFound",
      "InsufficientBalance">>

UpdateViolates(check, id, status) ==
    CASE check = "InvalidStatus" -> status \notin {APPROVED, REJECTED}
      [] check = "LeaveNotFound" -> id \notin DOMAIN leaves
      [] check = "AlreadyProcessed" ->
            id \in DOMAIN leaves /\ leaves[id].status # PENDING
      [] check = "EmployeeNotFound" ->
            /\ status = APPROVED /\ id \in DOMAIN leaves
            /\ leaves[id].employeId \notin DOMAIN employees
      [] check = "InsufficientBalance" ->
            /\ status = APPROVED /\ id \in DOMAIN leaves
            /\ leaves[id].employeId \in DOMAIN employees
            /\ employees[leaves[id].employeId].leaveAvailability
                  < (leaves[id].endDate - leaves[id].startDate) + 1

RECURSIVE EarliestUpdateViolatedFrom(_, _, _)
EarliestUpdateViolatedFrom(id, status, i) ==
    IF i > Len(UpdateCheckOrder) THEN "OK"
    ELSE IF UpdateViolates(UpdateCheckOrder[i], id, status) THEN UpdateCheckOrder[i]
    ELSE EarliestUpdateViolatedFrom(id, status, i + 1)

\* C30: updateLeaveStatus reports the earliest violated check in the order
\* InvalidStatus, LeaveNotFound, AlreadyProcessed and, for Approved only,
\* EmployeeNotFound, InsufficientBalance: an invalid target on an unknown id
\* yields InvalidStatus, a valid target on a processed leave AlreadyProcessed
\* whatever the employee's balance.
C30_UpdateChecksInOrder ==
    [][last'.op = "updateLeaveStatus" =>
         \A id \in LeaveIds : \A status \in StatusInputs :
            UpdateLeaveStatusWith(id, status)
              => last'.outcome = EarliestUpdateViolatedFrom(id, status, 1)]_vars

\* an approval has just been refused as AlreadyProcessed although the balance
\* of the leave's employee would not cover it either
C30_Witness ==
    /\ last.op = "updateLeaveStatus" /\ last.outcome = "AlreadyProcessed"
    /\ \A id \in DOMAIN leaves :
          /\ leaves[id].status # PENDING
          /\ employees[leaves[id].employeId].leaveAvailability
                < (leaves[id].endDate - leaves[id].startDate) + 1
    /\ Len(leaves) > 0

\* C27: in getAllLeaves the effective page and limit are positive integers
\* (a missing, non-numeric, zero or negative query value gives page 1 or
\* limit 9), so the skip is never negative and the page size never below 1.
C27_PageAndLimitPositive ==
    last.op = "getAllLeaves"
      => /\ last.body.page >= 1
         /\ last.body.limit >= 1
         /\ last.body.skip >= 0

\* C28: getAllLeaves returns the leaves newest first: of two returned
\* leaves, the one inserted later comes earlier in the result.
C28_NewestFirst ==
    (last.op = "getAllLeaves" /\ last.outcome = "OK")
      => \A i \in DOMAIN last.body.items : \A j \in DOMAIN last.body.items :
            i < j => last.body.items[i] > last.body.items[j]

\* C29: each of the first 200 read requests of a client in a 15-minute window
\* reaches its handler; a read is answered 429 only after more than 200.
C29_FirstTwoHundredReadsServed ==
    last.outcome = "TooManyRequests" => hits.reads > ReadMax

\* C31: every stored leave has startDate <= endDate and a status among
\* Pending, Approved and Rejected, in every reachable state, and the leave an
\* accepted application has just inserted is Pending.
C31_StoredLeavesWellFormed ==
    /\ \A i \in DOMAIN leaves :
          /\ leaves[i].startDate <= leaves[i].endDate
          /\ leaves[i].status \in LeaveStatus
    /\ (last.op = "applyForLeave" /\ last.outcome = "OK")
          => (last.id = Len(leaves) /\ leaves[last.id].status = PENDING)

\* a leave of several days has just been inserted, Pending, next to a leave
\* that has been processed
C31_Witness ==
    /\ last.op = "applyForLeave" /\ last.outcome = "OK"
    /\ leaves[last.id].status = PENDING
    /\ leaves[last.id].startDate < leaves[last.id].endDate
    /\ \E i \in DOMAIN leaves : Terminal(leaves[i])

\* C32: with requests served one at a time and none failing, every
\* employee's leaveAvailability is the one it was created with minus the days
\* of its Approved leaves: each approval deducted once, nothing else deducted.
C32_BalanceIsCreatedMinusApproved ==
    \A e \in DOMAIN employees :
        employees[e].leaveAvailability + ApprovedDays(e) = created[e]

\* an employee has an Approved leave of several days and a Rejected one, and
\* another employee exists
C32_Witness ==
    /\ Len(employees) > 1
    /\ \E i \in DOMAIN leaves : \E j \in DOMAIN leaves :
          /\ leaves[i].employeId = leaves[j].employeId
          /\ leaves[i].status = APPROVED /\ leaves[i].startDate < leaves[i].endDate
          /\ leaves[j].status = REJECTED
          /\ employees[leaves[i].employeId].leaveAvailability
               < created[leaves[i].employeId]

\* C33: a Rejected leave does not block its dates: an application is refused
\* as OverlapConflict only when a Pending or Approved leave of the same
\* employee shares a day with its range, so one whose range meets Rejected
\* leaves alone is not refused for overlap.
C33_RejectedLeaveDoesNotBlock ==
    \A body \in CompleteApply :
        ApplyResponse(body, OutcomeOf(body)).outcome = "OverlapConflict"
          => \E i \in DOMAIN leaves :
                /\ leaves[i].employeId = body.employeeId
                /\ Active(leaves[i])
                /\ Intersect(leaves[i], body)

\* an application has been accepted for a range that shares a day with a
\* Rejected leave of the same employee
C33_Witness ==
    /\ last.op = "applyForLeave" /\ last.outcome = "OK"
    /\ \E i \in DOMAIN leaves :
          /\ i # last.id
          /\ leaves[i].employeId = leaves[last.id].employeId
          /\ leaves[i].status = REJECTED
          /\ Intersect(leaves[i], leaves[last.id])

\* days of employee e's Pending leaves
RECURSIVE PendingDaysUpTo(_, _)
PendingDaysUpTo(e, n) ==
    IF n = 0 THEN 0
    ELSE PendingDaysUpTo(e, n - 1)
           + (IF leaves[n].employeId = e /\ leaves[n].status = PENDING
                THEN (leaves[n].endDate - leaves[n].startDate) + 1 ELSE 0)

PendingDays(e) == PendingDaysUpTo(e, Len(leaves))

\* the Pending leaves of employee e jointly exceed e's balance
OverCommitted(e) ==
    e \in DOMAIN employees /\ PendingDays(e) > employees[e].leaveAvailability

\* C34: applyForLeave compares the balance with the candidate's duration
\* alone, so an employee's Pending leaves can jointly exceed the balance; from
\* such a state they are never all approved: an approval of one of them
\* either fails with InsufficientBalance and changes nothing, or succeeds,
\* leaves the balance at 0 or more and leaves Pending leaves that still
\* exceed it.
C34_OverCommittedNeverAllApproved ==
    [][(last'.op = "updateLeaveStatus"
          /\ last'.outcome \in {"OK", "InsufficientBalance"}) =>
         \A id \in DOMAIN leaves :
            (/\ leaves[id].status = PENDING
             /\ OverCommitted(leaves[id].employeId)
             /\ UpdateLeaveStatusWith(id, APPROVED))
              => \/ /\ last'.outcome = "InsufficientBalance"
                    /\ UNCHANGED <<employees, leaves>>
                 \/ /\ last'.outcome = "OK"
                    /\ employees'[leaves[id].employeId].leaveAvailability >= 0
                    /\ OverCommitted(leaves[id].employeId)'
                    /\ \E j \in DOMAIN leaves :
                          /\ j # id
                          /\ leaves'[j].employeId = leaves[id].employeId
                          /\ leaves'[j].status = PENDING]_vars

\* two leaves of one employee had each passed the balance check of
\* applyForLeave; one has been approved and the approval of the other has
\* just failed with InsufficientBalance
C34_Witness ==
    /\ last.op = "updateLeaveStatus" /\ last.outcome = "InsufficientBalance"
    /\ \E i \in DOMAIN leaves : \E j \in DOMAIN leaves :
          /\ leaves[i].employeId = leaves[j].employeId
          /\ leaves[i].status = APPROVED /\ leaves[j].status = PENDING
          /\ LeaveDuration(leaves[j].startDate, leaves[j].endDate)
               <= created[leaves[j].employeId]
          /\ OverCommitted(leaves[j].employeId)

\* complete requests that pass the checks made before the store is read
ValidApply == {b \in CompleteApply : b.startDate >= Today /\ b.startDate <= b.endDate}

\* the employee whose document or leave the request just answered concerned
Concerned ==
    CASE last.op = "createEmployee" -> last.id
      [] last.op = "applyForLeave" -> last.body.employeeId
      [] last.op = "updateLeaveStatus" -> leaves[last.id].employeId
      [] OTHER -> 0

\* C35: employees are isolated from one another: a request that changed the
\* store for one employee leaves the outcome applyForLeave reaches for any
\* other employee as it was, and a transition of one employee's leave changes
\* no other employee's document and no other employee's leave.
C35_EmployeesIsolated ==
    [][(last'.outcome = "OK"
          /\ last'.op \in {"createEmployee", "applyForLeave", "updateLeaveStatus"}) =>
         /\ \A body \in ValidApply :
               body.employeeId # Concerned' => OutcomeOf(body)' = OutcomeOf(body)
         /\ last'.op = "updateLeaveStatus" =>
               /\ DOMAIN employees' = DOMAIN employees
               /\ DOMAIN leaves' = DOMAIN leaves
               /\ \A e \in DOMAIN employees :
                     e # Concerned' => employees'[e] = employees[e]
               /\ \A j \in DOMAIN leaves :
                     leaves[j].employeId # Concerned' => leaves'[j] = leaves[j]]_vars

\* a leave of one employee has just been approved while another employee
\* holds a Pending leave for the same days and an untouched balance
C35_Witness ==
    /\ last.op = "updateLeaveStatus" /\ last.outcome = "OK" /\ last.req = APPROVED
    /\ \E j \in DOMAIN leaves :
          /\ leaves[j].employeId # leaves[last.id].employeId
          /\ leaves[j].status = PENDING
          /\ Intersect(leaves[j], leaves[last.id])
          /\ employees[leaves[j].employeId].leaveAvailability
               = created[leaves[j].employeId]

====
